---- MODULE Spec2Model ----
(***************************************************************************)
(* Trigger creation for aws-Lambda function invocations                    *)
(* (src/src/triggers/aws_lambda.js).                                       *)
(*                                                                         *)
(* JavaScript values are tagged records [t |-> type, v |-> content].       *)
(* A string is a sequence of tokens; the separators ":" "." "/" are tokens *)
(* of their own, so that split() is computed, not assumed.  An exception   *)
(* is the value Throw, which every operation propagates.                   *)
(***************************************************************************)
EXTENDS Integers, Sequences, FiniteSets, TLC

VARIABLES
    metadataOnly,   \* config.getConfig().metadataOnly
    AWS,            \* TRUE iff tryRequire('aws-sdk') found the module
    pc,             \* "idle": between invocations, "invoked": event received
    event,          \* the payload of the current invocation
    context,        \* the invocation context
    chosenTag,      \* the value of triggerService at the registry lookup, Throw when
                    \* classification threw, undefined before the call
    outcome,        \* "none" | "returned" | "raised" : createFromEvent's result
    trigger,        \* the Trigger returned (meaningful when outcome = "returned")
    prevDynamo,     \* history: the previous invocation, when it returned a dynamodb trigger
    fsPc,           \* the position of the wrapped fs call: "idle", "noCallback",
                    \* "originalNoCb", "callback", "originalCb", "afterTry", "returned", "thrown"
    fsCall,         \* the wrapped call: originalName, options, callback
    fsCallback,     \* the constant fsCallback of line 429: the user's callback or false
    clientRequest,  \* what the original returned inside the try block, else undefined
    cbCount,        \* how often the original has invoked patchedCallback in this call
    fsLog           \* history: the calls made since the wrapper was entered, in order

fsVars == <<fsPc, fsCall, fsCallback, clientRequest, cbCount, fsLog>>

triggerVars ==
    <<metadataOnly, AWS, pc, event, context, chosenTag, outcome, trigger, prevDynamo>>

vars == <<triggerVars, fsVars>>

-----------------------------------------------------------------------------
(* JavaScript values *)

Undef == [t |-> "undefined", v |-> 0]
Null == [t |-> "null", v |-> 0]
Throw == [t |-> "throw", v |-> 0]
S(s) == [t |-> "string", v |-> s]
Num(n) == [t |-> "number", v |-> n]
Bool(b) == [t |-> "boolean", v |-> b]
Obj(f) == [t |-> "object", v |-> f]
Arr(a) == [t |-> "array", v |-> a]
Fn(name) == [t |-> "function", v |-> name]

EmptyMap == [k \in {} |-> Undef]

Thrown(x) == x.t = "throw"

AnyThrown(xs) == \E i \in DOMAIN xs : Thrown(xs[i])

\* JavaScript truthiness
Truthy(x) ==
    CASE x.t \in {"undefined", "null", "throw"} -> FALSE
      [] x.t = "string" -> x.v # <<>>
      [] x.t = "number" -> x.v # 0
      [] x.t = "boolean" -> x.v
      [] OTHER -> TRUE

\* The operand of `k in x` must be an object, else TypeError
IsObject(x) == x.t \in {"object", "array", "function"}

\* `k in x` for an object x (own keys; a key whose value is undefined is still in)
In(k, x) == x.t = "object" /\ k \in DOMAIN x.v

\* x.k / x[k]: TypeError on undefined and null, undefined when the key is absent
Get(x, k) ==
    CASE x.t \in {"undefined", "null", "throw"} -> Throw
      [] x.t = "object" -> IF k \in DOMAIN x.v THEN x.v[k] ELSE Undef
      [] OTHER -> Undef

\* x[i] with a numeric index (0-based)
Index(x, i) ==
    CASE x.t \in {"undefined", "null", "throw"} -> Throw
      [] x.t = "array" -> IF i + 1 \in DOMAIN x.v THEN x.v[i + 1] ELSE Undef
      [] x.t = "string" -> IF i + 1 \in DOMAIN x.v THEN S(<<x.v[i + 1]>>) ELSE Undef
      [] x.t = "object" ->
            IF i \in 0..9 /\ ToString(i) \in DOMAIN x.v THEN x.v[ToString(i)] ELSE Undef
      [] OTHER -> Undef

\* x.length of an array
Length(x) ==
    CASE x.t \in {"undefined", "null", "throw"} -> Throw
      [] x.t \in {"array", "string"} -> Num(Len(x.v))
      [] OTHER -> Undef

\* a || b
Or(a, b) == IF Thrown(a) THEN Throw ELSE IF Truthy(a) THEN a ELSE b

-----------------------------------------------------------------------------
(* String operations *)

RECURSIVE SplitTokens(_, _, _)
\* s.split(sep) on a token sequence: the list of segments between separators
SplitTokens(s, sep, cur) ==
    IF s = <<>> THEN <<cur>>
    ELSE IF Head(s) = sep THEN <<cur>> \o SplitTokens(Tail(s), sep, <<>>)
    ELSE SplitTokens(Tail(s), sep, Append(cur, Head(s)))

\* x.split(sep): TypeError unless x is a string
Split(x, sep) ==
    IF x.t = "string"
    THEN LET segs == SplitTokens(x.v, sep, <<>>)
         IN  Arr([i \in DOMAIN segs |-> S(segs[i])])
    ELSE Throw

\* a.pop() / a.slice(-1)[0]: the last element
Pop(a) == IF Thrown(a) THEN Throw ELSE Index(a, Len(a.v) - 1)

\* a.slice(-2)[0]: the element before the last, or the only one
SliceMinus2First(a) ==
    IF Thrown(a) THEN Throw
    ELSE IF Len(a.v) >= 2 THEN a.v[Len(a.v) - 1] ELSE Index(a, 0)

\* whether pat occurs in s at position i
MatchAt(s, pat, i) ==
    /\ i + Len(pat) - 1 <= Len(s)
    /\ \A j \in 1..Len(pat) : s[i + j - 1] = pat[j]

\* x.replace(pat, ''): the first occurrence of pat removed; TypeError unless x is a string
Replace(x, pat) ==
    IF x.t # "string" THEN Throw
    ELSE LET hits == {i \in 1..Len(x.v) : MatchAt(x.v, pat, i)}
         IN  IF hits = {} THEN x
             ELSE LET i == CHOOSE h \in hits : \A g \in hits : h <= g
                  IN  S(SubSeq(x.v, 1, i - 1) \o SubSeq(x.v, i + Len(pat), Len(x.v)))

Digits == <<"0", "1", "2", "3", "4", "5", "6", "7", "8", "9">>

RECURSIVE ToStr(_), Join(_, _)
\* `${x}` / String(x): string conversion of a value
ToStr(x) ==
    CASE x.t = "throw" -> Throw
      [] x.t = "string" -> x
      [] x.t = "undefined" -> S(<<"undefined">>)
      [] x.t = "null" -> S(<<"null">>)
      [] x.t = "number" -> S(<<Digits[(x.v % 10) + 1]>>)
      [] x.t = "boolean" -> S(<<IF x.v THEN "true" ELSE "false">>)
      [] x.t = "array" -> S(Join(x.v, 1))
      [] OTHER -> S(<<"[object Object]">>)

\* Array.prototype.join(","): null and undefined elements give the empty string
Join(a, i) ==
    IF i > Len(a) THEN <<>>
    ELSE (IF a[i].t \in {"undefined", "null"} THEN <<>> ELSE ToStr(a[i]).v)
         \o (IF i < Len(a) THEN <<",">> ELSE <<>>)
         \o Join(a, i + 1)

\* `prefix${x}`: a template string
Template(prefix, x) == IF Thrown(x) THEN Throw ELSE S(<<prefix>> \o ToStr(x).v)

-----------------------------------------------------------------------------
(* JSON.parse, JSON.stringify / JSON.sortify, md5, DynamoDB unmarshall *)

Q == "\""

IsDigit(tok) == \E i \in DOMAIN Digits : Digits[i] = tok

DigitValue(tok) == (CHOOSE i \in DOMAIN Digits : Digits[i] = tok) - 1

ParseFail == [ok |-> FALSE, val |-> Undef, rest |-> <<>>]

ParseOk(val, rest) == [ok |-> TRUE, val |-> val, rest |-> rest]

\* the position of the closing quote of a string literal whose content starts at ts[1]
ClosingQuote(ts) ==
    IF \E i \in DOMAIN ts : ts[i] = Q
    THEN CHOOSE i \in DOMAIN ts : ts[i] = Q /\ \A j \in 1..(i - 1) : ts[j] # Q
    ELSE 0

RECURSIVE ParseValue(_), ParseMembers(_, _), ParseElements(_, _)
\* one JSON value at the head of the token sequence ts
ParseValue(ts) ==
    IF ts = <<>> THEN ParseFail
    ELSE LET h == Head(ts)
             r == Tail(ts)
         IN  CASE h = "null" -> ParseOk(Null, r)
               [] h = "true" -> ParseOk(Bool(TRUE), r)
               [] h = "false" -> ParseOk(Bool(FALSE), r)
               [] IsDigit(h) -> ParseOk(Num(DigitValue(h)), r)
               [] h = Q ->
                    LET c == ClosingQuote(r)
                    IN  IF c = 0 THEN ParseFail
                        ELSE ParseOk(S(SubSeq(r, 1, c - 1)), SubSeq(r, c + 1, Len(r)))
               [] h = "{" ->
                    IF r # <<>> /\ Head(r) = "}"
                    THEN ParseOk(Obj(EmptyMap), Tail(r))
                    ELSE ParseMembers(r, EmptyMap)
               [] h = "[" ->
                    IF r # <<>> /\ Head(r) = "]"
                    THEN ParseOk(Arr(<<>>), Tail(r))
                    ELSE ParseElements(r, <<>>)
               [] OTHER -> ParseFail

\* the members of an object after "{": "key" : value, ... }  (a repeated key keeps the last)
ParseMembers(ts, acc) ==
    LET k == ParseValue(ts)
    IN  IF ~k.ok \/ k.val.t # "string" \/ k.val.v = <<>> \/ Len(k.val.v) > 1
           \/ k.rest = <<>> \/ Head(k.rest) # ":"
        THEN ParseFail
        ELSE LET pv == ParseValue(Tail(k.rest))
                 acc2 == (k.val.v[1] :> pv.val) @@ acc
             IN  IF ~pv.ok \/ pv.rest = <<>> THEN ParseFail
                 ELSE IF Head(pv.rest) = "}" THEN ParseOk(Obj(acc2), Tail(pv.rest))
                 ELSE IF Head(pv.rest) = "," THEN ParseMembers(Tail(pv.rest), acc2)
                 ELSE ParseFail

\* the elements of an array after "[": value, ... ]
ParseElements(ts, acc) ==
    LET pv == ParseValue(ts)
        acc2 == Append(acc, pv.val)
    IN  IF ~pv.ok \/ pv.rest = <<>> THEN ParseFail
        ELSE IF Head(pv.rest) = "]" THEN ParseOk(Arr(acc2), Tail(pv.rest))
        ELSE IF Head(pv.rest) = "," THEN ParseElements(Tail(pv.rest), acc2)
        ELSE ParseFail

\* JSON.parse(x): x is converted to a string first; SyntaxError unless the whole text is one value
JSONparse(x) ==
    LET text == ToStr(x)
    IN  IF Thrown(text) THEN Throw
        ELSE LET p == ParseValue(text.v)
             IN  IF p.ok /\ p.rest = <<>> THEN p.val ELSE Throw

RECURSIVE StringifyTokens(_), StringifyMembers(_, _, _), StringifyElements(_, _)
\* the JSON text of a value, object keys in one canonical order
StringifyTokens(x) ==
    CASE x.t = "string" -> <<Q>> \o x.v \o <<Q>>
      [] x.t = "number" -> <<Digits[(x.v % 10) + 1]>>
      [] x.t = "boolean" -> <<IF x.v THEN "true" ELSE "false">>
      [] x.t = "object" ->
            <<"{">> \o StringifyMembers(x.v, {k \in DOMAIN x.v : x.v[k].t \notin {"undefined", "function"}}, TRUE)
                    \o <<"}">>
      [] x.t = "array" -> <<"[">> \o StringifyElements(x.v, 1) \o <<"]">>
      [] OTHER -> <<"null">>

\* the members whose keys are in ks; a key with an undefined value is left out
StringifyMembers(f, ks, first) ==
    IF ks = {} THEN <<>>
    ELSE LET k == CHOOSE c \in ks : TRUE
         IN  (IF first THEN <<>> ELSE <<",">>)
             \o <<Q, k, Q, ":">> \o StringifyTokens(f[k])
             \o StringifyMembers(f, ks \ {k}, FALSE)

StringifyElements(a, i) ==
    IF i > Len(a) THEN <<>>
    ELSE StringifyTokens(a[i])
         \o (IF i < Len(a) THEN <<",">> ELSE <<>>)
         \o StringifyElements(a, i + 1)

\* JSON.stringify(x): undefined for undefined, else the text
JSONstringify(x) ==
    CASE x.t = "throw" -> Throw
      [] x.t \in {"undefined", "function"} -> Undef
      [] OTHER -> S(StringifyTokens(x))

\* JSON.sortify(x): JSON.stringify with the keys of every object in sorted order
JSONsortify(x) == JSONstringify(x)

Alphabet ==
    <<"{", "}", "[", "]", ":", ",", Q, "null", "true", "false",
      "0", "1", "2", "3", "4", "5", "6", "7", "8", "9",
      "pk", "sk", "attr", "u1", "u2", "v1", "v2">>

TokenCode(tok) ==
    IF \E i \in DOMAIN Alphabet : Alphabet[i] = tok
    THEN CHOOSE i \in DOMAIN Alphabet : Alphabet[i] = tok
    ELSE Len(Alphabet) + 1

HexDigits == <<"0", "1", "2", "3", "4", "5", "6", "7", "8", "9", "a", "b", "c", "d", "e", "f">>

RECURSIVE Digest(_, _)
\* a 16-bit digest of a token sequence
Digest(s, h) ==
    IF s = <<>> THEN h ELSE Digest(Tail(s), (h * 31 + TokenCode(Head(s))) % 65536)

\* md5(text): a fixed-width hexadecimal digest, never the empty string
md5(x) ==
    IF Thrown(x) THEN Throw
    ELSE LET h == Digest(ToStr(x).v, 7)
         IN  S(<<HexDigits[(h \div 4096) + 1], HexDigits[((h \div 256) % 16) + 1],
                 HexDigits[((h \div 16) % 16) + 1], HexDigits[(h % 16) + 1]>>)

\* AWS.DynamoDB.Converter.output of one attribute value {S: ..} | {N: ..} | {NULL: true}
convertOutput(attr) ==
    CASE In("S", attr) -> ToStr(attr.v["S"])
      [] In("N", attr) ->
            IF attr.v["N"].t = "string" /\ Len(attr.v["N"].v) = 1 /\ IsDigit(attr.v["N"].v[1])
            THEN Num(DigitValue(attr.v["N"].v[1])) ELSE Undef
      [] In("NULL", attr) -> Null
      [] OTHER -> Undef

\* AWS.DynamoDB.Converter.unmarshall(data): every attribute decoded; {} for a missing map
unmarshall(data) ==
    IF Thrown(data) THEN Throw
    ELSE IF data.t = "object"
    THEN Obj([k \in DOMAIN data.v |-> convertOutput(data.v[k])])
    ELSE Obj(EmptyMap)

-----------------------------------------------------------------------------
(* The Trigger and the metadata primitive *)

\* new serverlessEvent.Event() with a new serverlessEvent.Resource(): nothing set yet
NewTrigger ==
    [t |-> "event", id |-> Undef,
     resource |-> [type |-> Undef, name |-> Undef, operation |-> Undef],
     start_time |-> Undef, duration |-> Undef, origin |-> Undef, error_code |-> Undef,
     annotations |-> EmptyMap, payload |-> EmptyMap]

\* eventInterface.addToMetadata(trigger, metadata, payload): annotations are always
\* attached, the payload channel only when metadata-only mode is off
addToMetadata(trg, metadata, payload) ==
    [trg EXCEPT !.annotations = metadata @@ @,
                !.payload = IF metadataOnly THEN @ ELSE payload @@ @]

MAX_SQS_BODY_LENGTH == 1024

TruncationMarker == "...[truncated]"

\* utils.truncateMessage(message, maxSize): a longer string is cut and marked
truncateMessage(message, maxSize) ==
    IF message.t = "string" /\ Len(message.v) > maxSize
    THEN S(Append(SubSeq(message.v, 1, maxSize), TruncationMarker))
    ELSE message

\* the keys by which an SQS body is recognised as an SNS notification
SNSMessageKeys == {"Type", "MessageId", "TopicArn", "Message"}

RECURSIVE getSNSTrigger(_, _)
\* resourceUtils.getSNSTrigger(records): the first record body that is an SNS
\* notification, parsed; null when there is none
getSNSTrigger(records, i) ==
    IF i > Len(records) THEN Null
    ELSE LET body == JSONparse(Get(records[i], "body"))
         IN  IF body.t = "object" /\ SNSMessageKeys \subseteq DOMAIN body.v
             THEN body
             ELSE getSNSTrigger(records, i + 1)

\* event.Records[0]
Record0(ev) == Index(Get(ev, "Records"), 0)

\* the extractor's result: the filled trigger, or Throw when any evaluated expression threw
Built(trg, evaluated) == IF AnyThrown(evaluated) THEN Throw ELSE trg

-----------------------------------------------------------------------------
(* The extractors *)

createJSONTrigger(ev, trg, ctx, uuid) ==
    LET name == Template("trigger-", Get(ctx, "functionName"))
    IN  Built(addToMetadata(
                [trg EXCEPT !.id = Template("trigger-", S(<<uuid>>)),
                            !.resource.name = name,
                            !.resource.operation = S(<<"Event">>)],
                EmptyMap,
                "data" :> ev),
              <<name>>)

createS3Trigger(ev, trg) ==
    LET r == Record0(ev)
        id == Get(Get(r, "responseElements"), "x-amz-request-id")
        s3 == Get(r, "s3")
        name == Get(Get(s3, "bucket"), "name")
        op == Get(r, "eventName")
        object == Get(s3, "object")
        md == ("region" :> ToStr(Get(r, "awsRegion")))
              @@ ("request_parameters" :> JSONstringify(Get(r, "requestParameters")))
              @@ ("user_identity" :> JSONstringify(Get(r, "userIdentity")))
              @@ ("object_key" :> ToStr(Get(object, "key")))
              @@ ("object_size" :> ToStr(Get(object, "size")))
              @@ ("object_etag" :> ToStr(Get(object, "eTag")))
              @@ ("x-amz-request-id" :> ToStr(id))
    IN  Built(addToMetadata(
                [trg EXCEPT !.id = id, !.resource.name = name, !.resource.operation = op],
                md, EmptyMap),
              <<id, name, op, md["region"], md["request_parameters"], md["user_identity"],
                md["object_key"], md["object_size"], md["object_etag"]>>)

createKinesisTrigger(ev, trg) ==
    LET r == Record0(ev)
        id == Get(r, "eventID")
        name == Pop(Split(Get(r, "eventSourceARN"), "/"))
        op == Replace(Get(r, "eventName"), <<"aws", ":", "kinesis", ":">>)
        kinesis == Get(r, "kinesis")
        md == ("region" :> Get(r, "awsRegion"))
              @@ ("invoke_identity" :> Get(r, "invokeIdentityArn"))
              @@ ("sequence_number" :> Get(kinesis, "sequenceNumber"))
              @@ ("partition_key" :> Get(kinesis, "partitionKey"))
              @@ ("total_record_count" :> Length(Get(ev, "Records")))
    IN  Built(addToMetadata(
                [trg EXCEPT !.id = id, !.resource.name = name, !.resource.operation = op],
                md, EmptyMap),
              <<id, name, op, md["sequence_number"], md["partition_key"]>>)

createSNSTrigger(ev, trg) ==
    LET r == Record0(ev)
        sns == Get(r, "Sns")
        id == Get(sns, "MessageId")
        name == SliceMinus2First(Split(Get(r, "EventSubscriptionArn"), ":"))
        op == Get(sns, "Type")
    IN  Built(addToMetadata(
                [trg EXCEPT !.id = id, !.resource.name = name, !.resource.operation = op],
                "Notification Subject" :> Get(sns, "Subject"),
                ("Notification Message" :> Get(sns, "Message"))
                @@ ("Notification Message Attributes" :> Get(sns, "MessageAttributes"))),
              <<id, name, op>>)

\* sqsRecordEntry without the metadataOnly test: body and attributes always copied
sqsRecordEntry_ignoresMetadataOnly(r) ==
    IF Thrown(Get(r, "md5OfBody")) THEN Throw
    ELSE Obj(("MD5 Of Message Body" :> Get(r, "md5OfBody"))
             @@ ("Message ID" :> Get(r, "messageId"))
             @@ ("Message Body" :>
                    truncateMessage(Or(Get(r, "body"), S(<<"{", "}">>)), MAX_SQS_BODY_LENGTH))
             @@ ("Attributes" :> Get(r, "attributes"))
             @@ ("Message Attributes" :> Get(r, "messageAttributes")))

\* the per-record entry of the SQS `record` annotation (the callback of Records.map)
sqsRecordEntry(r) ==
    LET base == ("MD5 Of Message Body" :> Get(r, "md5OfBody"))
                @@ ("Message ID" :> Get(r, "messageId"))
        full == ("Message Body" :>
                    truncateMessage(Or(Get(r, "body"), S(<<"{", "}">>)), MAX_SQS_BODY_LENGTH))
                @@ ("Attributes" :> Get(r, "attributes"))
                @@ ("Message Attributes" :> Get(r, "messageAttributes"))
    IN  IF Thrown(Get(r, "md5OfBody")) THEN Throw
        ELSE IF ~metadataOnly THEN Obj(full @@ base)
        ELSE Obj(base)

\* event.Records.map(callback): TypeError unless Records is an array
sqsRecordList(records) ==
    IF records.t # "array" THEN Throw
    ELSE LET entries == [i \in DOMAIN records.v |-> sqsRecordEntry(records.v[i])]
         IN  IF AnyThrown(entries) THEN Throw ELSE Arr(entries)

\* sqsStepsDict without the catch: what the block evaluates to is used as it is
sqsStepsDict_noCatch(sqsMessageBody) ==
    Get(Get(JSONparse(sqsMessageBody), "input"), "Epsagon")

\* the try block: the first body parsed, input.Epsagon when it is there;
\* undefined when it is not or when anything in the block threw
sqsStepsDict(sqsMessageBody) ==
    LET messageBody == JSONparse(sqsMessageBody)
        input == Get(messageBody, "input")
        epsagon == Get(input, "Epsagon")
    IN  IF Truthy(input) /\ Truthy(epsagon) THEN epsagon ELSE Undef

\* lines 134-138: the steps_dict annotation, attached when input.Epsagon was found
sqsAttachStepsDict(trg, stepsDict) ==
    IF stepsDict.t # "undefined"
    THEN addToMetadata(trg, "steps_dict" :> stepsDict, EmptyMap)
    ELSE trg

\* lines 143-146: the 'SNS Trigger' annotation, attached when snsData != null
sqsAttachSNSTrigger(trg, snsData) ==
    IF snsData.t \notin {"null", "undefined"}
    THEN addToMetadata(trg, "SNS Trigger" :> snsData, EmptyMap)
    ELSE trg

\* lines 112-130: id, name, operation and the record annotations
sqsHeader(trg, r, records, list) ==
    addToMetadata(
        [trg EXCEPT !.id = Get(r, "messageId"),
                    !.resource.name = Pop(Split(Get(r, "eventSourceARN"), ":")),
                    !.resource.operation = S(<<"ReceiveMessage">>)],
        ("record" :> list) @@ ("total_record_count" :> Length(records)),
        EmptyMap)

\* the statements of createSQSTrigger in order, for a first record r and a record list
sqsBuild(trg, r, records, list) ==
    IF AnyThrown(<<Get(r, "messageId"), Pop(Split(Get(r, "eventSourceARN"), ":")), list>>)
    THEN Throw
    ELSE sqsAttachSNSTrigger(
            sqsAttachStepsDict(
                sqsHeader(trg, r, records, list),
                sqsStepsDict(Or(Get(r, "body"), S(<<"{", "}">>)))),
            getSNSTrigger(records.v, 1))

createSQSTrigger(ev, trg) ==
    sqsBuild(trg, Record0(ev), Get(ev, "Records"), sqsRecordList(Get(ev, "Records")))

createAPIGatewayTrigger(ev, trg) ==
    LET rc == Get(ev, "requestContext")
        headers == Get(ev, "headers")
        id == Get(rc, "requestId")
        name == Or(Get(headers, "Host"), Get(rc, "apiId"))
        op == Get(ev, "httpMethod")
    IN  Built(addToMetadata(
                [trg EXCEPT !.id = id, !.resource.name = name, !.resource.operation = op],
                ("stage" :> Get(rc, "stage"))
                @@ ("query_string_parameters" :> Get(ev, "queryStringParameters"))
                @@ ("path_parameters" :> Get(ev, "pathParameters"))
                @@ ("path" :> Get(ev, "resource")),
                ("body" :> Get(ev, "body")) @@ ("headers" :> headers)
                @@ ("requestContext" :> rc)),
              <<id, name, op>>)

createAPIGatewayHTTPV2Trigger(ev, trg) ==
    LET rc == Get(ev, "requestContext")
        headers == Get(ev, "headers")
        http == Get(rc, "http")
        id == Get(rc, "requestId")
        name == Or(Get(headers, "Host"), Get(rc, "domainName"))
        op == Get(http, "method")
    IN  Built(addToMetadata(
                [trg EXCEPT !.id = id, !.resource.name = name, !.resource.operation = op],
                ("stage" :> Get(rc, "stage"))
                @@ ("query_string_parameters" :> Get(ev, "queryStringParameters"))
                @@ ("path_parameters" :> Get(ev, "pathParameters"))
                @@ ("path" :> Get(http, "path"))
                @@ ("aws.api_gateway.api_id" :> Get(rc, "apiId")),
                ("body" :> Get(ev, "body")) @@ ("headers" :> headers)
                @@ ("requestContext" :> rc)),
              <<id, name, op>>)

createNoProxyAPIGatewayTrigger(ev, trg) ==
    LET ctx == Get(ev, "context")
        params == Get(ev, "params")
        header == Get(params, "header")
        id == Get(ctx, "request-id")
        name == Or(Get(header, "Host"), Get(ctx, "api-id"))
        op == Get(ctx, "http-method")
    IN  Built(addToMetadata(
                [trg EXCEPT !.id = id, !.resource.name = name, !.resource.operation = op],
                ("stage" :> Get(ctx, "stage"))
                @@ ("query_string_parameters" :> Get(params, "querystring"))
                @@ ("path_parameters" :> Get(params, "path"))
                @@ ("path" :> Get(ctx, "resource-path")),
                ("body" :> Get(ev, "body-json")) @@ ("headers" :> header)),
              <<id, name, op>>)

createWebSocketTrigger(ev, trg) ==
    LET rc == Get(ev, "requestContext")
        id == Get(rc, "requestId")
        name == Get(rc, "domainName")
        op == Or(Get(rc, "eventType"), S(<<"CONNECT">>))
    IN  Built(addToMetadata(
                [trg EXCEPT !.id = id, !.resource.name = name, !.resource.operation = op],
                ("stage" :> Get(rc, "stage"))
                @@ ("route_key" :> Get(rc, "routeKey"))
                @@ ("message_id" :> Get(rc, "messageId"))
                @@ ("connection_id" :> Get(rc, "connectionId"))
                @@ ("request_id" :> id)
                @@ ("message_direction" :> Get(rc, "messageDirection")),
                "body" :> Get(ev, "body")),
              <<id, name, op>>)

createEventsTrigger(ev, trg) ==
    LET id == Get(ev, "id")
        first == Index(Get(ev, "resources"), 0)
        name == IF first.t = "string" THEN Pop(Split(first, "/"))
                ELSE IF Thrown(first) THEN Throw
                ELSE S(<<"CloudWatch Events">>)
        op == Get(ev, "detail-type")
    IN  Built(addToMetadata(
                [trg EXCEPT !.id = id, !.resource.name = name, !.resource.operation = op],
                ("region" :> Get(ev, "region"))
                @@ ("detail" :> JSONstringify(Get(ev, "detail")))
                @@ ("account" :> Get(ev, "account")),
                EmptyMap),
              <<id, name, op>>)

\* dynamoItemHash that hashes the new image whatever the event name is
dynamoItemHash_alwaysNewImage(record) ==
    IF AWS
    THEN md5(JSONsortify(unmarshall(Get(Get(record, "dynamodb"), "NewImage"))))
    ELSE S(<<>>)

\* itemHash: '' without aws-sdk; with it, the md5 of the sorted JSON of the decoded
\* Keys (REMOVE) or NewImage (any other event name)
dynamoItemHash(record) ==
    IF AWS
    THEN LET dynamodb == Get(record, "dynamodb")
             isRemove == Get(record, "eventName").t = "string"
                         /\ Get(record, "eventName").v = <<"REMOVE">>
             item == IF isRemove
                     THEN unmarshall(Get(dynamodb, "Keys"))
                     ELSE unmarshall(Get(dynamodb, "NewImage"))
         IN  md5(JSONsortify(item))
    ELSE S(<<>>)

createDynamoDBTrigger(ev, trg) ==
    LET record == Record0(ev)
        itemHash == dynamoItemHash(record)
        id == Get(record, "eventID")
        name == Index(Split(Get(record, "eventSourceARN"), "/"), 1)
        op == Get(record, "eventName")
        seq == Get(Get(record, "dynamodb"), "SequenceNumber")
    IN  Built(addToMetadata(
                [trg EXCEPT !.id = id, !.resource.name = name, !.resource.operation = op],
                ("region" :> Get(record, "awsRegion"))
                @@ ("sequence_number" :> seq)
                @@ ("item_hash" :> itemHash)
                @@ ("total_record_count" :> Length(Get(ev, "Records"))),
                "data" :> JSONstringify(Get(ev, "Records"))),
              <<itemHash, id, name, op, seq>>)

createElbTrigger(ev, trg, uuid) ==
    LET headers == Get(ev, "headers")
        name == Get(headers, "host")
        op == Get(ev, "httpMethod")
        arn == Get(Get(Get(ev, "requestContext"), "elb"), "targetGroupArn")
    IN  Built(addToMetadata(
                [trg EXCEPT !.id = Template("elb-", S(<<uuid>>)),
                            !.resource.name = name, !.resource.operation = op],
                ("query_string_parameters" :> JSONstringify(Get(ev, "queryStringParameters")))
                @@ ("target_group_arn" :> arn)
                @@ ("path" :> Get(ev, "path")),
                ("body" :> JSONstringify(Get(ev, "body")))
                @@ ("headers" :> JSONstringify(headers))),
              <<name, op, arn>>)

createCognitoTrigger(ev, trg, uuid) ==
    LET name == Get(ev, "userPoolId")
        op == Get(ev, "triggerSource")
    IN  Built(addToMetadata(
                [trg EXCEPT !.id = Template("cognito-", S(<<uuid>>)),
                            !.resource.name = name, !.resource.operation = op],
                ("username" :> Get(ev, "userName")) @@ ("region" :> Get(ev, "region")),
                ("caller_context" :> Get(ev, "callerContext"))
                @@ ("request" :> Get(ev, "request"))
                @@ ("response" :> Get(ev, "response"))),
              <<name, op>>)

-----------------------------------------------------------------------------
(* The registry, the classifier and the builder *)

\* the keys of resourceTypeToFactoryMap
RegisteredTypes ==
    {"s3", "json", "kinesis", "events", "sns", "sqs", "api_gateway",
     "api_gateway_no_proxy", "api_gateway_websocket", "api_gateway_http2",
     "dynamodb", "elastic_load_balancer", "cognito"}

\* not keys of the map, yet callable through it: the methods every object inherits
ObjectPrototypeMethods ==
    {"constructor", "toString", "toLocaleString", "valueOf", "hasOwnProperty",
     "isPrototypeOf", "propertyIsEnumerable"}

\* resourceTypeToFactoryMap[triggerService](event, trigger, context)
resourceTypeToFactoryMap(tag, ev, trg, ctx, uuid) ==
    IF tag.t # "string" \/ Len(tag.v) # 1 THEN Throw
    ELSE LET key == tag.v[1]
         IN  CASE key = "s3" -> createS3Trigger(ev, trg)
               [] key = "json" -> createJSONTrigger(ev, trg, ctx, uuid)
               [] key = "kinesis" -> createKinesisTrigger(ev, trg)
               [] key = "events" -> createEventsTrigger(ev, trg)
               [] key = "sns" -> createSNSTrigger(ev, trg)
               [] key = "sqs" -> createSQSTrigger(ev, trg)
               [] key = "api_gateway" -> createAPIGatewayTrigger(ev, trg)
               [] key = "api_gateway_no_proxy" -> createNoProxyAPIGatewayTrigger(ev, trg)
               [] key = "api_gateway_websocket" -> createWebSocketTrigger(ev, trg)
               [] key = "api_gateway_http2" -> createAPIGatewayHTTPV2Trigger(ev, trg)
               [] key = "dynamodb" -> createDynamoDBTrigger(ev, trg)
               [] key = "elastic_load_balancer" -> createElbTrigger(ev, trg, uuid)
               [] key = "cognito" -> createCognitoTrigger(ev, trg, uuid)
               [] key \in ObjectPrototypeMethods -> trg
               [] OTHER -> Throw

Tag(name) == S(<<name>>)

\* lines 357-363: the tag a first record r gives; the second `if` is no `else if`,
\* so eventSource is looked at after EventSource and overrides it
recordsTag(r) ==
    IF ~IsObject(r) THEN Throw
    ELSE IF In("EventSource", r) /\ Thrown(Pop(Split(Get(r, "EventSource"), ":"))) THEN Throw
    ELSE IF In("eventSource", r) THEN Pop(Split(Get(r, "eventSource"), ":"))
    ELSE IF In("EventSource", r) THEN Pop(Split(Get(r, "EventSource"), ":"))
    ELSE Tag("json")

\* requestTag with the httpMethod branch moved before the requestContext.elb branch
requestTag_httpMethodFirst(ev) ==
    IF In("httpMethod", ev) THEN Tag("api_gateway")
    ELSE IF In("requestContext", ev) /\ ~IsObject(Get(ev, "requestContext")) THEN Throw
    ELSE IF In("requestContext", ev) /\ In("elb", Get(ev, "requestContext"))
    THEN Tag("elastic_load_balancer")
    ELSE IF In("context", ev) /\ ~IsObject(Get(ev, "context")) THEN Throw
    ELSE IF In("context", ev) /\ In("http-method", Get(ev, "context"))
    THEN Tag("api_gateway_no_proxy")
    ELSE IF In("dynamodb", ev) THEN Tag("dynamodb")
    ELSE IF In("userPoolId", ev) THEN Tag("cognito")
    ELSE IF /\ In("requestContext", ev)
            /\ In("apiId", Get(ev, "requestContext"))
            /\ In("http", Get(ev, "requestContext"))
    THEN Tag("api_gateway_http2")
    ELSE IF In("requestContext", ev) /\ In("apiId", Get(ev, "requestContext"))
    THEN Tag("api_gateway_websocket")
    ELSE Tag("json")

\* lines 368-386: the branches for a payload without Records and without a usable source
requestTag(ev) ==
    IF In("requestContext", ev) /\ ~IsObject(Get(ev, "requestContext")) THEN Throw
    ELSE IF In("requestContext", ev) /\ In("elb", Get(ev, "requestContext"))
    THEN Tag("elastic_load_balancer")
    ELSE IF In("httpMethod", ev) THEN Tag("api_gateway")
    ELSE IF In("context", ev) /\ ~IsObject(Get(ev, "context")) THEN Throw
    ELSE IF In("context", ev) /\ In("http-method", Get(ev, "context"))
    THEN Tag("api_gateway_no_proxy")
    ELSE IF In("dynamodb", ev) THEN Tag("dynamodb")
    ELSE IF In("userPoolId", ev) THEN Tag("cognito")
    ELSE IF /\ In("requestContext", ev)
            /\ In("apiId", Get(ev, "requestContext"))
            /\ In("http", Get(ev, "requestContext"))
    THEN Tag("api_gateway_http2")
    ELSE IF In("requestContext", ev) /\ In("apiId", Get(ev, "requestContext"))
    THEN Tag("api_gateway_websocket")
    ELSE Tag("json")

\* lines 354-387, the classification of createFromEvent: the value of triggerService
\* before the registry lookup, or Throw
triggerService(ev) ==
    IF ~Truthy(ev) THEN Tag("json")
    ELSE IF ~IsObject(ev) THEN Throw
    ELSE IF In("Records", ev) THEN recordsTag(Record0(ev))
    ELSE IF In("source", ev) /\ In("detail-type", ev) /\ In("detail", ev)
    THEN Tag("events")
    ELSE IF In("source", ev) /\ Truthy(Get(ev, "source"))
    THEN Pop(Split(Get(ev, "source"), "."))
    ELSE requestTag(ev)

Timestamp(time) == [t |-> "timestamp", v |-> time]

\* utils.createTimestamp(): the capture time, which no later step reads
CaptureTime == [t |-> "capture_time", v |-> 0]

ErrorCode_OK == S(<<"OK">>)

\* fillCommonFields without the setType call
fillCommonFields_noSetType(trg, resourceType) ==
    [trg EXCEPT !.start_time = CaptureTime,
                !.duration = Timestamp(0),
                !.origin = S(<<"trigger">>),
                !.error_code = ErrorCode_OK]

fillCommonFields(trg, resourceType) ==
    [trg EXCEPT !.start_time = CaptureTime,
                !.duration = Timestamp(0),
                !.origin = S(<<"trigger">>),
                !.resource.type = resourceType,
                !.error_code = ErrorCode_OK]

\* lines 392-394: nothing is filled and nothing returned when the extractor threw
fillBuilt(built, tag) == IF Thrown(built) THEN Throw ELSE fillCommonFields(built, tag)

\* lines 389-394 for the tag the classification chose
buildTrigger(tag, ev, ctx, uuid) ==
    IF Thrown(tag) THEN Throw
    ELSE fillBuilt(resourceTypeToFactoryMap(tag, ev, NewTrigger, ctx, uuid), tag)

\* createFromEvent(event, context): the Trigger, or Throw when classification, the
\* registry lookup or the extractor threw
createFromEvent(ev, ctx, uuid) == buildTrigger(triggerService(ev), ev, ctx, uuid)

-----------------------------------------------------------------------------
(* The invocations the runtime delivers *)

MaxRecords == 2

Absent == [t |-> "absent", v |-> 0]

\* an object with the fields of f that are not Absent
MkObj(f) == Obj([k \in {c \in DOMAIN f : f[c].t # "absent"} |-> f[k]])

QS(x) == <<Q, x, Q>>

Arn(service, sep, name) == S(<<"arn", ":", "aws", ":", service, ":", "us-east-1", sep, name>>)

UUIDs == {"u1", "u2"}

Contexts == {Obj([functionName |-> S(<<"fn1">>)])}

OtherContexts == {Obj([functionName |-> S(<<"fn2">>)]), Obj(EmptyMap), Undef}

\* payloads that are no objects, or objects with nothing in them
PlainPayloads ==
    {Null, Undef, Num(0), Num(5), S(<<>>), S(<<"abc">>), Bool(FALSE), Bool(TRUE),
     Obj(EmptyMap), Arr(<<>>), Obj([foo |-> S(<<"bar">>)])}

Headers == Obj([Host |-> S(<<"api", ".", "example">>), host |-> S(<<"lb", ".", "example">>)])

ElbRC == Obj([elb |-> Obj([targetGroupArn |-> Arn("elasticloadbalancing", ":", "tg")])])
ElbApiRC == Obj([elb |-> Obj([targetGroupArn |-> Arn("elasticloadbalancing", ":", "tg")]),
                 apiId |-> S(<<"api1">>), requestId |-> S(<<"req1">>)])
ApiRC == Obj([apiId |-> S(<<"api1">>), requestId |-> S(<<"req1">>),
              domainName |-> S(<<"ws", ".", "example">>), stage |-> S(<<"prod">>)])
ApiNoIdRC == Obj([apiId |-> S(<<"api1">>), domainName |-> S(<<"ws", ".", "example">>)])
HttpRC == Obj([apiId |-> S(<<"api1">>), requestId |-> S(<<"req2">>),
               domainName |-> S(<<"h2", ".", "example">>),
               http |-> Obj([method |-> S(<<"POST">>), path |-> S(<<"/", "p">>)])])

RequestContexts == {Absent, Obj(EmptyMap), ElbRC, ElbApiRC, ApiRC, ApiNoIdRC, HttpRC}

NoProxyContext == Obj(("http-method" :> S(<<"PUT">>)) @@ ("request-id" :> S(<<"req3">>))
                      @@ ("api-id" :> S(<<"api3">>)))
NoProxyContextNoId == Obj("http-method" :> S(<<"PUT">>))

NoProxyParams == Obj([header |-> Obj([Host |-> S(<<"np", ".", "example">>)]),
                      querystring |-> Obj(EmptyMap), path |-> Obj(EmptyMap)])

\* payloads without Records and without source: every combination of the HTTP-style,
\* dynamodb and cognito fields
GatewayPayloads ==
    {MkObj([requestContext |-> rc, httpMethod |-> hm, headers |-> Headers,
            context |-> c, params |-> IF c.t = "absent" THEN Absent ELSE NoProxyParams,
            dynamodb |-> d, userPoolId |-> up,
            triggerSource |-> IF up.t = "absent" THEN Absent ELSE S(<<"PreSignUp">>)]) :
        rc \in RequestContexts,
        hm \in {Absent, S(<<"GET">>)},
        c \in {Absent, NoProxyContext},
        d \in {Absent, Obj(EmptyMap)},
        up \in {Absent, S(<<"pool1">>)}}

\* the same shapes with the headers or the identifier missing
PartialGatewayPayloads ==
    {MkObj([requestContext |-> rc, httpMethod |-> hm, headers |-> h]) :
        rc \in {ElbRC, ApiRC, HttpRC}, hm \in {Absent, S(<<"GET">>)},
        h \in {Absent, Obj(EmptyMap)}}
    \cup {Obj([context |-> NoProxyContextNoId, params |-> NoProxyParams]),
          Obj([context |-> NoProxyContext]),
          Obj([userPoolId |-> S(<<"pool1">>)])}

\* payloads whose requestContext or context is present but is no object
MalformedContextPayloads ==
    {MkObj([requestContext |-> rc, context |-> c, httpMethod |-> hm]) :
        rc \in {Absent, S(<<"rc">>), Null, Num(1)},
        c \in {Absent, S(<<"ctx">>), Null},
        hm \in {Absent, S(<<"GET">>)}}

Sources ==
    {S(<<>>), S(<<"aws", ".", "events">>), S(<<"aws", ".", "ec2">>),
     S(<<"aws", ".", "constructor">>), Num(7)}

EventResources == Arr(<<S(<<"arn", ":", "rule", "/", "nightly">>)>>)

\* payloads with a source field
SourcePayloads ==
    {MkObj(("detail-type" :> dt)
           @@ [source |-> src, detail |-> dl, id |-> id,
               resources |-> IF id.t = "absent" THEN Absent ELSE EventResources,
               region |-> S(<<"us-east-1">>),
               httpMethod |-> hm,
               headers |-> IF hm.t = "absent" THEN Absent ELSE Headers,
               requestContext |-> IF hm.t = "absent" THEN Absent ELSE ApiRC]) :
        src \in Sources,
        dt \in {Absent, S(<<"Scheduled Event">>)},
        dl \in {Absent, Obj(EmptyMap)},
        id \in {Absent, S(<<"ev1">>)},
        hm \in {Absent, S(<<"GET">>)}}
    \cup {MkObj(("detail-type" :> S(<<"Scheduled Event">>))
                @@ [source |-> S(<<"aws", ".", "events">>), detail |-> Obj(EmptyMap),
                    id |-> id, resources |-> rs]) :
            id \in {S(<<>>), S(<<"ev1">>)}, rs \in {Arr(<<>>), Arr(<<Num(1)>>)}}

\* the fields of a well-formed API-gateway proxy payload, merged into other payloads
ApiFields(hm) ==
    [httpMethod |-> hm,
     headers |-> IF hm.t = "absent" THEN Absent ELSE Headers,
     requestContext |-> IF hm.t = "absent" THEN Absent ELSE ApiRC]

\* payloads whose Records field has no usable first record
MalformedRecordsPayloads ==
    {MkObj([Records |-> rs] @@ ApiFields(hm)) :
        rs \in {Arr(<<>>), Null, Undef, S(<<"abc">>), Obj(EmptyMap), Arr(<<Null>>),
                Arr(<<Obj(EmptyMap)>>), Arr(<<Obj([foo |-> S(<<"bar">>)])>>)},
        hm \in {Absent, S(<<"GET">>)}}

SnsPart ==
    [Sns |-> Obj([MessageId |-> S(<<"sns1">>), Type |-> S(<<"Notification">>),
                  Subject |-> S(<<"subj">>), Message |-> S(<<"hi">>)]),
     EventSubscriptionArn |-> S(<<"arn", ":", "aws", ":", "sns", ":", "topic1", ":", "sub1">>)]

SqsPart ==
    [messageId |-> S(<<"msg1">>), md5OfBody |-> S(<<"d41d">>),
     eventSourceARN |-> Arn("sqs", ":", "queue1"),
     body |-> S(<<"{", "}">>)]

S3Part ==
    [responseElements |-> Obj("x-amz-request-id" :> S(<<"s3req1">>)),
     s3 |-> Obj([bucket |-> Obj([name |-> S(<<"bucket1">>)]),
                 object |-> Obj([key |-> S(<<"k", "/", "o">>), size |-> Num(3),
                                 eTag |-> S(<<"etag">>)])]),
     eventName |-> S(<<"ObjectCreated", ":", "Put">>),
     awsRegion |-> S(<<"us-east-1">>)]

\* payloads whose first record carries EventSource, eventSource, both or neither
TaggedRecordsPayloads ==
    {MkObj([Records |-> Arr(<<MkObj([EventSource |-> up, eventSource |-> lo]
                                    @@ SnsPart @@ SqsPart @@ S3Part)>>)]
           @@ ApiFields(hm)) :
        up \in {Absent, S(<<"aws", ":", "sns">>), S(<<"aws", ":", "ses">>), Num(3)},
        lo \in {Absent, S(<<"aws", ":", "sqs">>), S(<<"aws", ":", "s3">>),
                S(<<"aws", ":", "toString">>), Null},
        hm \in {Absent, S(<<"GET">>)}}

S3Payloads ==
    {Obj([Records |-> Arr(<<MkObj([eventSource |-> S(<<"aws", ":", "s3">>),
                                   responseElements |-> re]
                                  @@ S3Part)>>)]) :
        re \in {Absent, Obj(EmptyMap), Obj("x-amz-request-id" :> S(<<>>)),
                Obj("x-amz-request-id" :> S(<<"s3req2">>))}}

KinesisPayloads ==
    {Obj([Records |-> Arr(<<MkObj([eventSource |-> S(<<"aws", ":", "kinesis">>),
                                   eventID |-> id, kinesis |-> k, eventName |-> en,
                                   eventSourceARN |-> Arn("kinesis", ":", "stream/stream1"),
                                   awsRegion |-> S(<<"us-east-1">>)])>>)]) :
        id \in {Absent, S(<<"shard", ":", "1">>)},
        k \in {Absent, Obj([sequenceNumber |-> S(<<"1">>), partitionKey |-> S(<<"p">>)])},
        en \in {Absent, S(<<"aws", ":", "kinesis", ":", "record">>)}}

SnsPayloads ==
    {Obj([Records |-> Arr(<<MkObj([EventSource |-> S(<<"aws", ":", "sns">>), Sns |-> sns]
                                  @@ SnsPart)>>)]) :
        sns \in {Absent, Obj(EmptyMap), Obj([MessageId |-> S(<<"sns2">>)])}}

\* SQS message bodies: JSON texts and texts that are no JSON
Bodies ==
    {<<"{">> \o QS("input") \o <<":", "{">> \o QS("Epsagon") \o <<":", "{">> \o QS("x")
        \o <<":", "1", "}", "}", "}">>,
     <<"{">> \o QS("input") \o <<":", "{">> \o QS("Epsagon") \o <<":">> \o QS("step1")
        \o <<"}", ",">> \o QS("other") \o <<":", "[", "1", ",", "2", "]", "}">>,
     <<"{">> \o QS("input") \o <<":", "{">> \o QS("Epsagon") \o <<":", "{">> \o QS("x")
        \o <<":", "1", "}", "}">>,
     <<"{">> \o QS("input") \o <<":", "{">> \o QS("Epsagon") \o <<":", "null", "}", "}">>,
     <<"{">> \o QS("input") \o <<":", "{", "}", "}">>,
     <<"{">> \o QS("input") \o <<":">> \o QS("text") \o <<"}">>,
     <<"{">> \o QS("input") \o <<":", "null", "}">>,
     <<"{", "}">>,
     <<"null">>,
     <<"5">>,
     QS("text"),
     <<"hello", "world">>,
     <<>>}

\* the body of an SQS record that carries an SNS notification
SnsNotificationBody ==
    <<"{">> \o QS("Type") \o <<":">> \o QS("Notification") \o <<",">>
    \o QS("MessageId") \o <<":">> \o QS("m1") \o <<",">>
    \o QS("TopicArn") \o <<":">> \o QS("topic1") \o <<",">>
    \o QS("Message") \o <<":">> \o QS("hi") \o <<"}">>

SqsRecord(id, arn, body) ==
    MkObj([eventSource |-> S(<<"aws", ":", "sqs">>), messageId |-> id,
           md5OfBody |-> IF id.t = "absent" THEN Absent ELSE S(<<"d41d">>),
           eventSourceARN |-> arn, body |-> body,
           attributes |-> IF id.t = "absent" THEN Absent
                          ELSE Obj([SenderId |-> S(<<"sender">>)])])

SqsFirstRecords ==
    {SqsRecord(S(<<"msg1">>), Arn("sqs", ":", "queue1"), b) :
        b \in {S(x) : x \in Bodies} \cup {Absent, Num(5), Obj(EmptyMap), S(SnsNotificationBody)}}
    \cup {SqsRecord(Absent, Arn("sqs", ":", "queue1"), S(<<"{", "}">>)),
          SqsRecord(S(<<"msg1">>), Absent, S(<<"{", "}">>))}

SqsLaterRecords ==
    {SqsRecord(S(<<"msg2">>), Arn("sqs", ":", "queue1"), S(SnsNotificationBody)),
     SqsRecord(Absent, Absent, S(<<"hello">>))}

RECURSIVE SeqsUpTo(_, _)
\* the sequences over set of length at most n
SeqsUpTo(set, n) ==
    IF n <= 0 THEN {<<>>}
    ELSE LET shorter == SeqsUpTo(set, n - 1)
         IN  shorter \cup {Append(q, x) : q \in shorter, x \in set}

SqsPayloads ==
    {Obj([Records |-> Arr(<<first>> \o later)]) :
        first \in SqsFirstRecords, later \in SeqsUpTo(SqsLaterRecords, MaxRecords - 1)}

AttrS(x) == Obj([S |-> S(<<x>>)])
AttrN(x) == Obj([N |-> S(<<x>>)])

DynamoKeys == {Obj([pk |-> AttrS("u1")]), Obj([pk |-> AttrS("u2"), sk |-> AttrN("1")])}

DynamoImages ==
    {Absent,
     Obj([pk |-> AttrS("u1"), attr |-> AttrS("v1")]),
     Obj([pk |-> AttrS("u1"), attr |-> AttrS("v2")])}

DynamoRecord(id, arn, en, db) ==
    MkObj([eventSource |-> S(<<"aws", ":", "dynamodb">>), eventID |-> id,
           eventSourceARN |-> arn, eventName |-> en, dynamodb |-> db,
           awsRegion |-> S(<<"us-east-1">>)])

DynamoArn == Arn("dynamodb", ":", "table/table1/stream/2020")

\* DynamoDB stream payloads with every event name, key and image
DynamoStreamPayloads ==
    {Obj([Records |-> Arr(<<DynamoRecord(S(<<"ddb1">>), DynamoArn, S(<<en>>),
                                         MkObj([Keys |-> k, NewImage |-> img,
                                                SequenceNumber |-> S(<<"1">>)]))>>)]) :
        en \in {"REMOVE", "INSERT", "MODIFY"}, k \in DynamoKeys, img \in DynamoImages}

\* DynamoDB stream payloads with a field missing
DynamoPartialPayloads ==
    {Obj([Records |-> Arr(<<r>>)]) :
        r \in {DynamoRecord(Absent, DynamoArn, S(<<"INSERT">>),
                            Obj([Keys |-> Obj([pk |-> AttrS("u1")])])),
               DynamoRecord(S(<<"ddb1">>), Absent, S(<<"INSERT">>),
                            Obj([Keys |-> Obj([pk |-> AttrS("u1")])])),
               DynamoRecord(S(<<"ddb1">>), DynamoArn, S(<<"REMOVE">>), Absent),
               DynamoRecord(S(<<"ddb1">>), DynamoArn, Absent, Obj(EmptyMap)),
               DynamoRecord(S(<<"ddb1">>), S(<<"table1">>), S(<<"REMOVE">>),
                            Obj([Keys |-> Obj([pk |-> AttrS("u1")])]))}}

Payloads ==
    PlainPayloads \cup GatewayPayloads \cup PartialGatewayPayloads
    \cup MalformedContextPayloads \cup SourcePayloads
    \cup MalformedRecordsPayloads \cup TaggedRecordsPayloads \cup S3Payloads
    \cup KinesisPayloads \cup SnsPayloads \cup SqsPayloads
    \cup DynamoStreamPayloads \cup DynamoPartialPayloads

\* what the runtime can deliver: every payload with the usual context, the plainest
\* payloads with other contexts as well
Invocations ==
    (Payloads \X Contexts) \cup (PlainPayloads \X OtherContexts)

DynamoInvocations == (DynamoStreamPayloads \cup DynamoPartialPayloads) \X Contexts

-----------------------------------------------------------------------------
(* The state machine *)

NoDynamo == [set |-> FALSE, eventName |-> Undef, keys |-> Undef, newImage |-> Undef,
             hash |-> Undef]

\* what is remembered of an invocation that returned a dynamodb trigger
DynamoSummary ==
    IF outcome = "returned" /\ trigger.resource.type = Tag("dynamodb")
    THEN LET record == Record0(event)
         IN  [set |-> TRUE,
              eventName |-> Get(record, "eventName"),
              keys |-> Get(Get(record, "dynamodb"), "Keys"),
              newImage |-> Get(Get(record, "dynamodb"), "NewImage"),
              hash |-> trigger.annotations["item_hash"]]
    ELSE NoDynamo

Init ==
    /\ metadataOnly \in BOOLEAN
    /\ AWS \in BOOLEAN
    /\ pc = "idle"
    /\ event = Undef
    /\ context = Undef
    /\ chosenTag = Undef
    /\ outcome = "none"
    /\ trigger = NewTrigger
    /\ prevDynamo = NoDynamo
    /\ fsPc = "idle"
    /\ fsCall = [originalName |-> "writeFile", options |-> Undef, callback |-> Undef]
    /\ fsCallback = Bool(FALSE)
    /\ clientRequest = Undef
    /\ cbCount = 0
    /\ fsLog = <<>>

\* the runtime invokes the function with a payload and a context
Invoke(invocations, remember) ==
    /\ pc = "idle"
    /\ \E inv \in invocations :
        /\ event' = inv[1]
        /\ context' = inv[2]
    /\ pc' = "invoked"
    /\ chosenTag' = Undef
    /\ outcome' = "none"
    /\ trigger' = NewTrigger
    /\ prevDynamo' = IF remember THEN DynamoSummary ELSE NoDynamo
    /\ UNCHANGED <<metadataOnly, AWS, fsVars>>

\* the wrapper calls createFromEvent(event, context); uuid4() draws the identifier
CreateFromEvent ==
    /\ pc = "invoked"
    /\ \E uuid \in UUIDs :
        LET result == createFromEvent(event, context, uuid)
        IN  /\ chosenTag' = triggerService(event)
            /\ outcome' = IF Thrown(result) THEN "raised" ELSE "returned"
            /\ trigger' = IF Thrown(result) THEN NewTrigger ELSE result
    /\ pc' = "idle"
    /\ UNCHANGED <<metadataOnly, AWS, event, context, prevDynamo, fsVars>>

Next == Invoke(Invocations, FALSE) \/ CreateFromEvent

Spec == Init /\ [][Next]_vars

\* consecutive invocations by a DynamoDB stream, the previous one remembered
DynamoNext == Invoke(DynamoInvocations, TRUE) \/ CreateFromEvent

DynamoSpec == Init /\ [][DynamoNext]_vars

-----------------------------------------------------------------------------
(* The wrapper around fs.writeFile and fs.writeFileSync *)

\* how often the original may invoke the callback it was given, in one call
MaxCallbacks == 2

Err(code) == [t |-> "error", v |-> code]

\* what an fs function, the tracer or a callback may throw
Errors == {Err("EACCES"), Err("ENOENT")}

\* the first argument of a node-style callback: null or an error
CallbackErrors == {Null} \cup Errors

\* the file and the data of the call; neither is looked at by the wrapper
FsPath == S(<<"/", "tmp", "/", "f">>)

FsData == S(<<"data">>)

OriginalNames == {"writeFile", "writeFileSync"}

\* the third argument: absent, an options object, an encoding, or the user's callback
FsOptions == {Undef, Null, Obj([flag |-> S(<<"w">>)]), S(<<"utf8">>), Fn("userCallback3")}

\* the fourth argument: absent, the user's callback, or a value that is no function
FsCallbacks == {Undef, Null, Fn("userCallback4"), S(<<"junk">>)}

\* what the original may return: undefined (fs.writeFile), or some object
ReturnValues == {Undef, Obj(EmptyMap)}

PatchedCallback == Fn("patchedCallback")

Entry(op, args) == [op |-> op, args |-> args]

\* line 429: typeof (callback || options) === 'function' && (callback || options)
FsCallbackOf(options, callback) ==
    IF Or(callback, options).t = "function" THEN Or(callback, options) ELSE Bool(FALSE)

\* the body of patchedCallback, lines 441-445, run with the error err
patchedCallback(err, userCallback) ==
    << Entry("finalizeEvent", <<err>>),
       Entry("resolve", <<>>),
       Entry("fsCallback", <<userCallback, err>>) >>

\* wrapperArguments with the callback always put in fourth place
wrapperArguments_alwaysFourth(options, callback) ==
    IF callback.t = "function" \/ options.t = "function"
    THEN <<Entry("original", <<FsPath, FsData, options, PatchedCallback>>)>>
    ELSE <<>>

\* lines 447-451: the call of the original with patchedCallback where the user's
\* callback was; no call when neither argument is a function
wrapperArguments(options, callback) ==
    IF callback.t = "function"
    THEN <<Entry("original", <<FsPath, FsData, options, PatchedCallback>>)>>
    ELSE IF options.t = "function"
    THEN <<Entry("original", <<FsPath, FsData, PatchedCallback>>)>>
    ELSE <<>>

\* line 457-459: `clientRequest || fsCallback ? clientRequest : original.apply(...)`,
\* the condition being (clientRequest || fsCallback)
wrapperReturn(request, userCallback, options, callback) ==
    IF Truthy(Or(request, userCallback))
    THEN <<Entry("return", <<request>>)>>
    ELSE <<Entry("original", <<FsPath, FsData, options, callback>>),
           Entry("return", <<Undef>>)>>

\* lines 427-438: a client calls the wrapped function; the event is initialized and
\* the wrapper takes the branch without or with a callback
FsCallWrapped ==
    /\ fsPc \in {"idle", "returned", "thrown"}
    /\ \E name \in OriginalNames, options \in FsOptions, callback \in FsCallbacks :
        /\ fsCall' = [originalName |-> name, options |-> options, callback |-> callback]
        /\ fsCallback' = FsCallbackOf(options, callback)
        /\ fsLog' = <<Entry("initializeEvent",
                            <<S(<<"file_system">>), FsPath, S(<<name>>),
                              S(<<"file_system">>)>>)>>
        /\ fsPc' = IF Truthy(FsCallbackOf(options, callback))
                   THEN "callback" ELSE "noCallback"
    /\ clientRequest' = Undef
    /\ cbCount' = 0
    /\ UNCHANGED triggerVars

\* lines 411-412 and 414-416: tracer.addEvent(fsEvent), which may throw
HandleWithoutCallbackAddEvent ==
    /\ fsPc = "noCallback"
    /\ \/ /\ fsLog' = Append(fsLog, Entry("tracer.addEvent", <<>>))
          /\ fsPc' = "originalNoCb"
       \/ \E err \in Errors :
          /\ fsLog' = fsLog \o << Entry("tracer.addEvent.throws", <<err>>),
                                  Entry("finalizeEvent", <<err>>),
                                  Entry("throw", <<err>>) >>
          /\ fsPc' = "thrown"
    /\ UNCHANGED <<triggerVars, fsCall, fsCallback, clientRequest, cbCount>>

\* lines 413-416: original.apply(this, [path, data, options]) returns or throws
HandleWithoutCallbackOriginal ==
    /\ fsPc = "originalNoCb"
    /\ \/ \E value \in ReturnValues :
          /\ fsLog' = fsLog \o << Entry("original", <<FsPath, FsData, fsCall.options>>),
                                  Entry("original.returns", <<value>>),
                                  Entry("return", <<value>>) >>
          /\ fsPc' = "returned"
       \/ \E err \in Errors :
          /\ fsLog' = fsLog \o << Entry("original", <<FsPath, FsData, fsCall.options>>),
                                  Entry("original.throws", <<err>>),
                                  Entry("finalizeEvent", <<err>>),
                                  Entry("throw", <<err>>) >>
          /\ fsPc' = "thrown"
    /\ UNCHANGED <<triggerVars, fsCall, fsCallback, clientRequest, cbCount>>

\* lines 439-451: the promise and patchedCallback are made and the original is called
WrapCallOriginal ==
    /\ fsPc = "callback"
    /\ fsLog' = fsLog \o wrapperArguments(fsCall.options, fsCall.callback)
    /\ fsPc' = "originalCb"
    /\ UNCHANGED <<triggerVars, fsCall, fsCallback, clientRequest, cbCount>>

\* the original was handed patchedCallback
PatchedCallbackHandedOver ==
    \E i \in DOMAIN fsLog :
        /\ fsLog[i].op = "original"
        /\ \E j \in DOMAIN fsLog[i].args : fsLog[i].args[j] = PatchedCallback

\* lines 441-445: the original invokes patchedCallback, while it runs or after the
\* wrapper has returned; a callback that throws makes the original throw
OriginalInvokesPatchedCallback ==
    /\ fsPc \in {"originalCb", "returned"}
    /\ PatchedCallbackHandedOver
    /\ cbCount < MaxCallbacks
    /\ \E err \in CallbackErrors :
        fsLog' = fsLog \o patchedCallback(err, fsCallback)
    /\ cbCount' = cbCount + 1
    /\ UNCHANGED <<triggerVars, fsPc, fsCall, fsCallback, clientRequest>>

\* lines 448-452: the original returns, clientRequest is set and the event is handed
\* to the tracer with the promise; an exception of the tracer goes to the catch
OriginalReturns ==
    /\ fsPc = "originalCb"
    /\ PatchedCallbackHandedOver
    /\ \E value \in ReturnValues :
        /\ clientRequest' = value
        /\ \/ fsLog' = fsLog \o << Entry("original.returns", <<value>>),
                                    Entry("tracer.addEvent", <<>>) >>
           \/ \E err \in Errors :
              fsLog' = fsLog \o << Entry("original.returns", <<value>>),
                                  Entry("tracer.addEvent.throws", <<err>>),
                                  Entry("tracer.addException", <<err>>) >>
    /\ fsPc' = "afterTry"
    /\ UNCHANGED <<triggerVars, fsCall, fsCallback, cbCount>>

\* lines 453-455: the original throws; the catch hands the error to the tracer
OriginalThrows ==
    /\ fsPc = "originalCb"
    /\ PatchedCallbackHandedOver
    /\ \E err \in Errors :
        fsLog' = fsLog \o << Entry("original.throws", <<err>>),
                            Entry("tracer.addException", <<err>>) >>
    /\ fsPc' = "afterTry"
    /\ UNCHANGED <<triggerVars, fsCall, fsCallback, clientRequest, cbCount>>

\* lines 457-459: the wrapper returns
WrapperReturns ==
    /\ fsPc = "afterTry"
    /\ fsLog' = fsLog \o wrapperReturn(clientRequest, fsCallback,
                                        fsCall.options, fsCall.callback)
    /\ fsPc' = "returned"
    /\ UNCHANGED <<triggerVars, fsCall, fsCallback, clientRequest, cbCount>>

FsNext ==
    \/ FsCallWrapped
    \/ HandleWithoutCallbackAddEvent
    \/ HandleWithoutCallbackOriginal
    \/ WrapCallOriginal
    \/ OriginalInvokesPatchedCallback
    \/ OriginalReturns
    \/ OriginalThrows
    \/ WrapperReturns

FsSpec == Init /\ [][FsNext]_vars

-----------------------------------------------------------------------------
(* Properties *)

\* createFromEvent has been called and has ended, by a return or by an exception
Finished == pc = "idle" /\ outcome # "none"

Returned == pc = "idle" /\ outcome = "returned"

\* the enumeration of source tags
ClosedTags == {Tag(name) : name \in RegisteredTypes}

\* a payload as the runtime hands it over: null, empty, or an object
StructuredPayload == ~Truthy(event) \/ event.t = "object"

\* C1: classification never raises: for every null, empty or object payload, whatever
\* its Records, requestContext, context and source fields hold, a tag is produced.
C1_ClassificationNeverRaises ==
    Finished /\ StructuredPayload => ~Thrown(chosenTag)

\* C2: the tag classification chooses is always one of the thirteen registered tags,
\* and so is resource.type of every returned Trigger.
C2_TagInClosedSet ==
    Finished /\ StructuredPayload /\ ~Thrown(chosenTag) =>
        /\ chosenTag \in ClosedTags
        /\ outcome = "returned" => trigger.resource.type \in ClosedTags

\* the payload has requestContext.elb and httpMethod, and neither Records nor source
HasElbAndHttpMethod ==
    /\ event.t = "object"
    /\ ~In("Records", event) /\ ~In("source", event)
    /\ In("httpMethod", event)
    /\ In("requestContext", event) /\ In("elb", Get(event, "requestContext"))

\* C3: a payload with requestContext.elb and httpMethod (no Records, no source) is
\* classified elastic_load_balancer, never api_gateway, whatever else it carries.
C3_ElbBeforeApiGateway ==
    Finished /\ HasElbAndHttpMethod =>
        /\ chosenTag = Tag("elastic_load_balancer")
        /\ outcome = "returned" => trigger.resource.type = Tag("elastic_load_balancer")

\* an ELB payload that also carries dynamodb, userPoolId, requestContext.apiId and
\* context.http-method has been built
C3_Witness ==
    /\ Returned /\ HasElbAndHttpMethod
    /\ In("dynamodb", event) /\ In("userPoolId", event)
    /\ In("apiId", Get(event, "requestContext"))
    /\ In("context", event) /\ In("http-method", Get(event, "context"))
    /\ trigger.resource.type = Tag("elastic_load_balancer")

\* predicates 1 to 11 of the classifier as the specification words them
MatchesPredicate1to11(ev) ==
    /\ ev.t = "object"
    /\ \/ /\ In("Records", ev)
          /\ Get(ev, "Records").t = "array"
          /\ Get(ev, "Records").v # <<>>
          /\ \/ In("EventSource", Record0(ev))
             \/ In("eventSource", Record0(ev))
       \/ In("source", ev)
       \/ In("requestContext", ev) /\ In("elb", Get(ev, "requestContext"))
       \/ In("httpMethod", ev)
       \/ In("context", ev) /\ In("http-method", Get(ev, "context"))
       \/ In("dynamodb", ev)
       \/ In("userPoolId", ev)
       \/ In("requestContext", ev) /\ In("apiId", Get(ev, "requestContext"))

\* C4: null, {} and every payload matching none of predicates 1-11 is classified json,
\* and createFromEvent returns a Trigger for it with resource.type json, name
\* trigger-<functionName> and operation Event.
C4_UnmatchedIsJson ==
    Finished /\ StructuredPayload /\ ~MatchesPredicate1to11(event)
             /\ In("functionName", context) =>
        /\ chosenTag = Tag("json")
        /\ outcome = "returned"
        /\ trigger.resource.type = Tag("json")
        /\ trigger.resource.name = S(<<"trigger-">> \o Get(context, "functionName").v)
        /\ trigger.resource.operation = S(<<"Event">>)

\* C5: every returned Trigger has an id that is a non-empty string.
C5_IdNonEmptyString ==
    Returned => trigger.id.t = "string" /\ trigger.id.v # <<>>

SqsReturned == Returned /\ chosenTag = Tag("sqs")

\* the per-record entries of the returned SQS trigger
SqsEntries == trigger.annotations["record"].v

BodyFields == {"Message Body", "Attributes", "Message Attributes"}

\* C6: for every SQS payload and every record of it, the per-record entry has
\* 'Message ID' and 'MD5 Of Message Body'; it has none of 'Message Body', 'Attributes',
\* 'Message Attributes' when metadataOnly is true and all three when it is false;
\* total_record_count is the number of records.
C6_MetadataOnlySqsRecords ==
    SqsReturned =>
        LET records == Get(event, "Records").v
        IN  /\ Len(SqsEntries) = Len(records)
            /\ trigger.annotations["total_record_count"] = Num(Len(records))
            /\ \A i \in DOMAIN SqsEntries :
                LET keys == DOMAIN SqsEntries[i].v
                IN  /\ {"Message ID", "MD5 Of Message Body"} \subseteq keys
                    /\ SqsEntries[i].v["Message ID"] = Get(records[i], "messageId")
                    /\ metadataOnly => keys \cap BodyFields = {}
                    /\ ~metadataOnly => BodyFields \subseteq keys

\* a two-record SQS payload has been built in metadata-only mode
C6_Witness ==
    /\ SqsReturned /\ metadataOnly
    /\ Len(SqsEntries) = 2
    /\ Get(Record0(event), "body").t = "string"
    /\ Get(Record0(event), "attributes").t = "object"
    /\ DOMAIN SqsEntries[1].v = {"Message ID", "MD5 Of Message Body"}

BodyWithEpsagonObject ==
    <<"{">> \o QS("input") \o <<":", "{">> \o QS("Epsagon") \o <<":", "{">> \o QS("x")
    \o <<":", "1", "}", "}", "}">>

BodyWithEpsagonString ==
    <<"{">> \o QS("input") \o <<":", "{">> \o QS("Epsagon") \o <<":">> \o QS("step1")
    \o <<"}", ",">> \o QS("other") \o <<":", "[", "1", ",", "2", "]", "}">>

FirstBody == Get(Record0(event), "body")

\* C7: a first body that is JSON with a truthy input.Epsagon gives a steps_dict
\* annotation equal to that value; any other body (no JSON, missing, null, a value
\* without input.Epsagon) gives none and raises nothing; id, name, operation, the record
\* list and the SNS scan of all records are done in either case.
C7_StepsDict ==
    /\ SqsReturned =>
        /\ FirstBody = S(BodyWithEpsagonObject) =>
              /\ "steps_dict" \in DOMAIN trigger.annotations
              /\ trigger.annotations["steps_dict"] = Obj([x |-> Num(1)])
        /\ FirstBody = S(BodyWithEpsagonString) =>
              /\ "steps_dict" \in DOMAIN trigger.annotations
              /\ trigger.annotations["steps_dict"] = S(<<"step1">>)
        /\ FirstBody \notin {S(BodyWithEpsagonObject), S(BodyWithEpsagonString)} =>
              "steps_dict" \notin DOMAIN trigger.annotations
        /\ trigger.id = Get(Record0(event), "messageId")
        /\ trigger.resource.name = S(<<"queue1">>)
        /\ trigger.resource.operation = S(<<"ReceiveMessage">>)
        /\ "record" \in DOMAIN trigger.annotations
        /\ "SNS Trigger" \in DOMAIN trigger.annotations <=>
              \E i \in DOMAIN Get(event, "Records").v :
                  Get(Get(event, "Records").v[i], "body") = S(SnsNotificationBody)
    /\ Finished /\ chosenTag = Tag("sqs")
           /\ Get(event, "Records").t = "array"
           /\ (\A i \in DOMAIN Get(event, "Records").v : Get(event, "Records").v[i].t = "object")
           /\ Get(Record0(event), "eventSourceARN").t = "string" =>
        outcome = "returned"

\* a first body that is no JSON: no steps_dict, and the SNS notification of the second
\* record was still found
C7_Witness ==
    /\ SqsReturned
    /\ FirstBody = S(<<"hello", "world">>)
    /\ "steps_dict" \notin DOMAIN trigger.annotations
    /\ "SNS Trigger" \in DOMAIN trigger.annotations
    /\ trigger.id = S(<<"msg1">>)

DynamoReturned == Returned /\ chosenTag = Tag("dynamodb")

ItemHash == trigger.annotations["item_hash"]

IsRemove(eventName) == eventName = S(<<"REMOVE">>)

\* C8: the item_hash of a REMOVE event is decided by dynamodb.Keys alone (two REMOVE
\* payloads with equal Keys have equal hashes, whatever their NewImage), that of any
\* other event by dynamodb.NewImage alone; without aws-sdk the hash is the empty
\* string and nothing is raised.
C8_ItemHash ==
    /\ DynamoReturned =>
        /\ ~AWS => ItemHash = S(<<>>)
        /\ AWS => ItemHash.t = "string" /\ ItemHash.v # <<>>
        /\ prevDynamo.set =>
            LET cur == DynamoSummary
            IN  /\ IsRemove(cur.eventName) /\ IsRemove(prevDynamo.eventName)
                       /\ cur.keys = prevDynamo.keys =>
                      ItemHash = prevDynamo.hash
                /\ ~IsRemove(cur.eventName) /\ ~IsRemove(prevDynamo.eventName)
                       /\ cur.newImage = prevDynamo.newImage =>
                      ItemHash = prevDynamo.hash
    /\ Finished /\ ~AWS /\ chosenTag = Tag("dynamodb")
           /\ Get(Record0(event), "eventSourceARN").t = "string"
           /\ Get(Record0(event), "dynamodb").t = "object" =>
        outcome = "returned"

\* two consecutive REMOVE events with the same Keys and different NewImage were hashed
C8_Witness ==
    /\ DynamoReturned /\ AWS /\ prevDynamo.set
    /\ IsRemove(DynamoSummary.eventName) /\ IsRemove(prevDynamo.eventName)
    /\ DynamoSummary.keys = prevDynamo.keys
    /\ DynamoSummary.newImage # prevDynamo.newImage
    /\ ItemHash = prevDynamo.hash

\* the extractor the registry gives for the chosen tag throws on this payload
ExtractorRaises ==
    /\ ~Thrown(chosenTag)
    /\ \A uuid \in UUIDs :
        Thrown(resourceTypeToFactoryMap(chosenTag, event, NewTrigger, context, uuid))

\* C9: every returned Trigger has origin 'trigger', error_code OK, the zero duration
\* and resource.type equal to the tag classification chose for the same payload,
\* whatever the extractor wrote; no Trigger is returned when the extractor raised.
C9_CommonFields ==
    /\ Returned =>
        /\ trigger.origin = S(<<"trigger">>)
        /\ trigger.error_code = ErrorCode_OK
        /\ trigger.duration = Timestamp(0)
        /\ trigger.resource.type = chosenTag
    /\ Finished /\ ExtractorRaises => outcome = "raised" /\ trigger = NewTrigger

\* an S3 trigger was returned with the fields the extractor set and the common fields
C9_Witness ==
    /\ Returned /\ chosenTag = Tag("s3")
    /\ trigger.id = S(<<"s3req2">>)
    /\ trigger.resource.name = S(<<"bucket1">>)
    /\ trigger.resource.type = Tag("s3")
    /\ trigger.origin = S(<<"trigger">>)

\* the first record of a non-empty Records list carries field k
FirstRecordCarries(ev, k) ==
    /\ In("Records", ev)
    /\ Get(ev, "Records").t = "array"
    /\ Get(ev, "Records").v # <<>>
    /\ In(k, Record0(ev))

\* the tag of the first of predicates 5 to 12, in the order the specification lists
\* them, that the payload satisfies
SpecOrderTag5to12(ev) ==
    IF In("requestContext", ev) /\ In("elb", Get(ev, "requestContext"))
    THEN Tag("elastic_load_balancer")
    ELSE IF In("httpMethod", ev) THEN Tag("api_gateway")
    ELSE IF In("context", ev) /\ In("http-method", Get(ev, "context"))
    THEN Tag("api_gateway_no_proxy")
    ELSE IF In("dynamodb", ev) THEN Tag("dynamodb")
    ELSE IF In("userPoolId", ev) THEN Tag("cognito")
    ELSE IF In("requestContext", ev) /\ In("apiId", Get(ev, "requestContext"))
    THEN IF In("http", Get(ev, "requestContext"))
         THEN Tag("api_gateway_http2")
         ELSE Tag("api_gateway_websocket")
    ELSE Tag("json")

\* the tag of the first of predicates 1 to 12 that the payload satisfies
SpecOrderTag(ev) ==
    IF ev.t # "object" THEN Tag("json")
    ELSE IF FirstRecordCarries(ev, "EventSource")
    THEN Pop(Split(Get(Record0(ev), "EventSource"), ":"))
    ELSE IF FirstRecordCarries(ev, "eventSource")
    THEN Pop(Split(Get(Record0(ev), "eventSource"), ":"))
    ELSE IF In("source", ev) /\ In("detail-type", ev) /\ In("detail", ev)
    THEN Tag("events")
    ELSE IF In("source", ev) /\ ~In("detail-type", ev)
    THEN Pop(Split(Get(ev, "source"), "."))
    ELSE SpecOrderTag5to12(ev)

\* C10: the tag createFromEvent chooses, whenever it chooses one, is the tag of the
\* first predicate, in the order 1 to 12, that the payload satisfies: EventSource before eventSource when the
\* first record carries both, predicates 3-12 when a Records payload's first record
\* carries neither, and the text after the last '.' of source when there is a source
\* and no detail-type.
C10_FirstMatchInSpecOrder ==
    Finished /\ StructuredPayload /\ ~Thrown(chosenTag) => chosenTag = SpecOrderTag(event)

\* the call was made with a callback: the last of its arguments is a function
WithCallback == fsCallback.t = "function"

\* the positions in the history at which the original was called
OriginalCalls == {i \in DOMAIN fsLog : fsLog[i].op = "original"}

\* the arguments of the call with patchedCallback in the place of the user's callback
PatchedArguments ==
    IF fsCall.callback.t = "function"
    THEN <<FsPath, FsData, fsCall.options, PatchedCallback>>
    ELSE <<FsPath, FsData, PatchedCallback>>

\* C11: in a call with a callback (third or fourth argument) the original is invoked
\* exactly once, with patchedCallback where the user's callback was, and the fallback
\* call at the end of the wrapper is never made; every invocation of patchedCallback
\* finalizes the event with its error first and then invokes the user's callback
\* exactly once with the same error.  In a call without a callback the event is
\* added to the tracer before the original runs, and when the original throws the
\* event is finalized with the error and the same error is thrown to the caller.
C11_WrappedWriteFile ==
    /\ WithCallback =>
        /\ Cardinality(OriginalCalls) <= 1
        /\ fsPc \in {"originalCb", "afterTry", "returned"} =>
              /\ Cardinality(OriginalCalls) = 1
              /\ \A i \in OriginalCalls : fsLog[i].args = PatchedArguments
        /\ Cardinality({i \in DOMAIN fsLog : fsLog[i].op = "fsCallback"}) = cbCount
        /\ Cardinality({i \in DOMAIN fsLog : fsLog[i].op = "finalizeEvent"}) = cbCount
        /\ \A i \in DOMAIN fsLog :
              fsLog[i].op = "finalizeEvent" =>
                  /\ i + 2 \in DOMAIN fsLog
                  /\ fsLog[i + 2] = Entry("fsCallback", <<fsCallback, fsLog[i].args[1]>>)
                  /\ \E j \in OriginalCalls : j < i
    /\ ~WithCallback =>
        /\ \A i \in OriginalCalls :
              \E j \in 1..(i - 1) : fsLog[j].op = "tracer.addEvent"
        /\ \A i \in DOMAIN fsLog :
              fsLog[i].op = "original.throws" =>
                  /\ fsPc = "thrown"
                  /\ Len(fsLog) = i + 2
                  /\ fsLog[i + 1] = Entry("finalizeEvent", fsLog[i].args)
                  /\ fsLog[i + 2] = Entry("throw", fsLog[i].args)

\* writeFile(path, data, callback): the wrapper has returned and the original has
\* invoked the callback twice, first without an error and then with one
C11_Witness ==
    /\ fsPc = "returned"
    /\ fsCall.originalName = "writeFile"
    /\ fsCall.options = Fn("userCallback3") /\ fsCall.callback = Undef
    /\ cbCount = 2
    /\ fsLog[Len(fsLog)] = Entry("fsCallback", <<Fn("userCallback3"), Err("EACCES")>>)
    /\ \E i \in DOMAIN fsLog :
          fsLog[i] = Entry("fsCallback", <<Fn("userCallback3"), Null>>)

====
